---------------------------- MODULE Spec2Model ----------------------------
(***************************************************************************)
(* A model of the integer algorithms of formula.py.  Every function of the *)
(* library is pure: a call is modelled as a small state machine whose      *)
(* initial states enumerate the arguments and whose actions run the body.  *)
(* Python's // and % on a positive divisor are TLA+'s \div and %.          *)
(***************************************************************************)
EXTENDS Integers, Sequences, FiniteSets

VARIABLES
    fn,     \* the function being called
    args,   \* its arguments, a record
    pc,     \* position of the call: "call", "loop", "fed" or "done"
    out,    \* the outcome of the call: a returned value or a raised exception
    loc     \* the local variables of a body that is run step by step

vars == <<fn, args, pc, out, loc>>

(***************************************************************************)
(* Outcomes of a call.                                                     *)
(***************************************************************************)
Pending == [kind |-> "pending"]

Return(v) == [kind |-> "return", val |-> v]

Raise(exc, msg) == [kind |-> "raise", exc |-> exc, msg |-> msg]

NoLocals == [none |-> TRUE]

(***************************************************************************)
(* Bounds of the enumerated arguments.                                     *)
(***************************************************************************)
MaxN == 40

MaxX == 44

(***************************************************************************)
(* isqrt: the integer square root (gmpy2.isqrt, or int(n**0.5)).           *)
(***************************************************************************)
isqrt(n) == CHOOSE s \in 0..n : s * s <= n /\ (s + 1) * (s + 1) > n

Min(a, b) == IF a < b THEN a ELSE b

Max(a, b) == IF a > b THEN a ELSE b

(***************************************************************************)
(* sum_floor(n, xmin, xmax), formula.py 245-289.                           *)
(***************************************************************************)
\* the loop `for x in range(xmin, xmax+1): res += n // x`
RECURSIVE SumFloorLow(_, _, _, _)
SumFloorLow(n, x, xmax, res) ==
    IF x > xmax THEN res
    ELSE SumFloorLow(n, x + 1, xmax, res + n \div x)

\* the loop of the branch xmin >= nrt, over the quotients x = n // xmax .. n // xmin
RECURSIVE SumFloorHigh(_, _, _, _, _, _, _)
SumFloorHigh(n, xmin, xmax, x, real_xmax, a1, res) ==
    IF x > real_xmax THEN res
    ELSE LET a0  == a1
             a1n == n \div (x + 1)
             ub  == IF a0 < xmax THEN a0 ELSE xmax
             lb  == IF a1n >= xmin - 1 THEN a1n ELSE xmin - 1
         IN  SumFloorHigh(n, xmin, xmax, x + 1, real_xmax, a1n, res + (ub - lb) * x)

\* the loop of the straddling branch, x = real_xmin .. nrt
RECURSIVE SumFloorMixed(_, _, _, _, _, _, _)
SumFloorMixed(n, xmin, xmax, x, nrt, a1, res) ==
    IF x > nrt THEN res
    ELSE LET a0   == a1
             a1n  == n \div (x + 1)
             res1 == IF x >= xmin THEN res + a0 ELSE res
             ub   == IF a0 < xmax THEN a0 ELSE xmax
             res2 == IF a1n < xmax THEN res1 + (ub - a1n) * x ELSE res1
         IN  SumFloorMixed(n, xmin, xmax, x + 1, nrt, a1n, res2)

\* a sum_floor that never corrects the double-counted boundary term
SumFloorBoundary_keep(n, x, res) == res

\* the correction after the straddling loop; x is the loop's last value, nrt
SumFloorBoundary(n, x, res) == IF x = n \div x THEN res - x ELSE res

sum_floor(n, xmin, xmax0) ==
    LET nrt == isqrt(n)
    IN  IF xmin > n THEN 0
        ELSE LET xmax == IF xmax0 > n THEN n ELSE xmax0
             IN  IF xmax <= nrt THEN SumFloorLow(n, xmin, xmax, 0)
                 ELSE IF xmin >= nrt
                      THEN LET real_xmin == n \div xmax
                               real_xmax == n \div xmin
                           IN  SumFloorHigh(n, xmin, xmax, real_xmin, real_xmax,
                                            n \div real_xmin, 0)
                      ELSE LET r0        == n \div xmax
                               real_xmin == IF r0 > xmin THEN xmin ELSE r0
                           IN  SumFloorBoundary(n, nrt,
                                   SumFloorMixed(n, xmin, xmax, real_xmin, nrt,
                                                 n \div real_xmin, 0))

SumFloorInputs ==
    { [n |-> n, xmin |-> a, xmax |-> b] : n \in 1..MaxN, a \in 1..MaxX, b \in 1..MaxX }

InitSumFloor ==
    /\ fn = "sum_floor"
    /\ args \in { r \in SumFloorInputs : r.xmin <= r.xmax }
    /\ pc = "call"
    /\ out = Pending
    /\ loc = NoLocals

CallSumFloor ==
    /\ fn = "sum_floor"
    /\ pc = "call"
    /\ out' = Return(sum_floor(args.n, args.xmin, args.xmax))
    /\ pc' = "done"
    /\ UNCHANGED <<fn, args, loc>>

SpecSumFloor == InitSumFloor /\ [][CallSumFloor]_vars

\* the naive sum of floor(n/x) over x in [xmin, xmax]
RECURSIVE NaiveSumFloor(_, _, _)
NaiveSumFloor(n, xmin, xmax) ==
    IF xmin > xmax THEN 0 ELSE n \div xmax + NaiveSumFloor(n, xmin, xmax - 1)

Returned(f) == fn = f /\ pc = "done" /\ out.kind = "return"

\* C1: for n >= 1 and 1 <= xmin <= xmax, sum_floor(n, xmin, xmax) returns the
\* naive sum of floor(n/x) over x in [xmin, xmax], in each of its branches.
C1_SumFloorIsNaive ==
    Returned("sum_floor") =>
        out.val = NaiveSumFloor(args.n, args.xmin, args.xmax)

\* a straddling call whose boundary term x = isqrt(n) equals its own quotient
C1_Witness ==
    /\ Returned("sum_floor")
    /\ args.xmin < isqrt(args.n)
    /\ args.xmax > isqrt(args.n)
    /\ args.xmax > args.n
    /\ isqrt(args.n) = args.n \div isqrt(args.n)
    /\ out.val = NaiveSumFloor(args.n, args.xmin, args.xmax)

(***************************************************************************)
(* fractions.Fraction: a rational in lowest terms with a positive          *)
(* denominator, <<numerator, denominator>>.                                *)
(***************************************************************************)
Abs(a) == IF a < 0 THEN -a ELSE a

RECURSIVE Gcd(_, _)
Gcd(a, b) == IF b = 0 THEN a ELSE Gcd(b, a % b)

\* Fraction(n, d) for integers n and d # 0
Fraction(n, d) ==
    LET g == Gcd(Abs(n), Abs(d))
        s == IF d < 0 THEN -1 ELSE 1
    IN  <<(s * n) \div g, (s * d) \div g>>

MaxP == 10

MaxQ == 10

(***************************************************************************)
(* rational_continous_frac(p, q), formula.py 368-379.                      *)
(***************************************************************************)
\* the value appended after the loop (`cfrac.append(p)`)
RcfLastTerm(p, q) == p

RECURSIVE RcfLoop(_, _, _)
RcfLoop(p, q, cfrac) ==
    IF p % q # 0 THEN RcfLoop(q, p % q, Append(cfrac, p \div q))
    ELSE IF q # 0 THEN Append(cfrac, RcfLastTerm(p, q))
    ELSE cfrac

rational_continous_frac(p, q) == RcfLoop(p, q, <<>>)

(***************************************************************************)
(* continous_frac_convergent(cfrac), formula.py 412-429.                   *)
(***************************************************************************)
\* the loop `for a in cfrac[2:]`, k the index of a in cfrac
RECURSIVE CvgLoop(_, _, _, _, _, _, _)
CvgLoop(cfrac, k, p0, p1, q0, q1, cvg) ==
    IF k > Len(cfrac) THEN cvg
    ELSE LET a  == cfrac[k]
             p2 == a * p1 + p0
             q2 == a * q1 + q0
         IN  CvgLoop(cfrac, k + 1, p1, p2, q1, q2, Append(cvg, Fraction(p2, q2)))

continous_frac_convergent(cfrac) ==
    IF Len(cfrac) < 2
    THEN Raise("ValueError", "Continued fraction must longer than 2!")
    ELSE LET a0 == cfrac[1]
             a1 == cfrac[2]
             p0 == a0
             p1 == a0 * a1 + 1
             q0 == 1
             q1 == a1
         IN  Return(CvgLoop(cfrac, 3, p0, p1, q0, q1,
                            <<Fraction(p0, q0), Fraction(p1, q1)>>))

InitCFrac ==
    /\ fn = "rational_continous_frac"
    /\ args \in { [p |-> p, q |-> q] : p \in (-MaxP)..MaxP, q \in 1..MaxQ }
    /\ pc = "call"
    /\ out = Pending
    /\ loc = NoLocals

CallRational ==
    /\ fn = "rational_continous_frac"
    /\ pc = "call"
    /\ out' = Return(rational_continous_frac(args.p, args.q))
    /\ pc' = "fed"
    /\ UNCHANGED <<fn, args, loc>>

\* the caller hands the expansion to continous_frac_convergent
CallConvergent ==
    /\ fn = "rational_continous_frac"
    /\ pc = "fed"
    /\ fn' = "continous_frac_convergent"
    /\ loc' = [cfrac |-> out.val]
    /\ out' = continous_frac_convergent(out.val)
    /\ pc' = "done"
    /\ UNCHANGED args

NextCFrac == CallRational \/ CallConvergent

SpecCFrac == InitCFrac /\ [][NextCFrac]_vars

\* C2: for q > 0, the last convergent of rational_continous_frac(p, q) is
\* p/q in lowest terms, also when p and q share a factor or q divides p.
C2_LastConvergentIsPQ ==
    (fn = "continous_frac_convergent" /\ pc = "done") =>
        /\ out.kind = "return"
        /\ out.val[Len(out.val)] = Fraction(args.p, args.q)

(***************************************************************************)
(* iter_associate(f, x, n), formula.py 209-221.  The operator f is one of  *)
(* a family of associative operators, named by a string.                   *)
(***************************************************************************)
MaxIter == 16

Mod3(a) == a % 3

\* 2x2 matrices over Z/3 as <<a, b, c, d>>, multiplied
MatMul(a, b) ==
    << Mod3(a[1] * b[1] + a[2] * b[3]), Mod3(a[1] * b[2] + a[2] * b[4]),
       Mod3(a[3] * b[1] + a[4] * b[3]), Mod3(a[3] * b[2] + a[4] * b[4]) >>

Apply(f, a, b) ==
    CASE f = "concat" -> a \o b
      [] f = "matmul" -> MatMul(a, b)
      [] f = "first"  -> a
      [] f = "second" -> b
      [] f = "add"    -> a + b

\* an iter_associate that starts the bit scan at n instead of n - 1
IterStart_n(n) == n

\* `n, r = n - 1, x`: the exponent the loop scans
IterStart(n) == n - 1

RECURSIVE IterLoop(_, _, _, _)
IterLoop(f, x, n, r) ==
    IF n = 0 THEN r
    ELSE IterLoop(f, Apply(f, x, x), n \div 2,
                  IF n % 2 # 0 THEN Apply(f, x, r) ELSE r)

iter_associate(f, x, n) == IterLoop(f, x, IterStart(n), x)

Words == { <<a>> : a \in 1..2 } \cup { <<a, b>> : a \in 1..2, b \in 1..2 }

Matrices == { <<a, b, c, d>> : a \in 0..1, b \in 0..2, c \in 0..1, d \in 1..2 }

WordInputs == { [f |-> "concat", x |-> w, n |-> n] : w \in Words, n \in 1..MaxIter }

MatrixInputs == { [f |-> "matmul", x |-> w, n |-> n] : w \in Matrices, n \in 1..MaxIter }

IntInputs ==
    { [f |-> g, x |-> w, n |-> n] :
        g \in {"first", "second", "add"}, w \in 1..3, n \in 1..MaxIter }

InitIter ==
    /\ fn = "iter_associate"
    /\ \/ args \in WordInputs
       \/ args \in MatrixInputs
       \/ args \in IntInputs
    /\ pc = "call"
    /\ out = Pending
    /\ loc = NoLocals

CallIterAssociate ==
    /\ fn = "iter_associate"
    /\ pc = "call"
    /\ out' = Return(iter_associate(args.f, args.x, args.n))
    /\ pc' = "done"
    /\ UNCHANGED <<fn, args, loc>>

SpecIter == InitIter /\ [][CallIterAssociate]_vars

\* the naive left fold f(...f(f(x, x), x)..., x) of n copies of x
RECURSIVE LeftFold(_, _, _)
LeftFold(f, x, n) == IF n = 1 THEN x ELSE Apply(f, LeftFold(f, x, n - 1), x)

\* C3: for an associative f (commutative or not), x and n >= 1,
\* iter_associate(f, x, n) is the naive left fold of n copies of x.
C3_IterIsLeftFold ==
    Returned("iter_associate") => out.val = LeftFold(args.f, args.x, args.n)

\* a non-commutative operator, an exponent with several bits set
C3_Witness ==
    /\ Returned("iter_associate")
    /\ args.f = "matmul"
    /\ args.x = <<1, 1, 0, 1>>
    /\ args.n = 7
    /\ out.val = <<1, 1, 0, 1>>

(***************************************************************************)
(* inv_mod(n, m), formula.py 176-191.                                      *)
(***************************************************************************)
MaxInvN == 30

MaxInvM == 16

\* the loop `while n != 0`, returning <<m, x0>> as the loop leaves them
RECURSIVE InvModLoop(_, _, _, _)
InvModLoop(m, n, x0, x1) ==
    IF n = 0 THEN <<m, x0>>
    ELSE InvModLoop(n, m % n, x1, x0 - (m \div n) * x1)

\* an inv_mod that returns the Bezout coefficient without reducing it
InvModResult_raw(x0, m0) == x0

\* `return x0 % m0`
InvModResult(x0, m0) == x0 % m0

inv_mod(n0, m) ==
    LET n == n0 % m
    IN  IF n = 0 \/ m <= 0 THEN 0
        ELSE LET e == InvModLoop(m, n, 0, 1)
             IN  IF e[1] = 1 THEN InvModResult(e[2], m) ELSE 0

InitInvMod ==
    /\ fn = "inv_mod"
    /\ args \in { [n |-> n, m |-> m] : n \in (-MaxInvN)..MaxInvN, m \in 1..MaxInvM }
    /\ pc = "call"
    /\ out = Pending
    /\ loc = NoLocals

CallInvMod ==
    /\ fn = "inv_mod"
    /\ pc = "call"
    /\ out' = Return(inv_mod(args.n, args.m))
    /\ pc' = "done"
    /\ UNCHANGED <<fn, args, loc>>

SpecInvMod == InitInvMod /\ [][CallInvMod]_vars

\* C4: for any integer n and m > 0, inv_mod(n, m) returns: when gcd(n, m) = 1,
\* an r with 0 <= r < m and (n * r) mod m = 1 mod m; otherwise 0.
C4_InvMod ==
    (fn = "inv_mod" /\ pc = "done") =>
        /\ out.kind = "return"
        /\ IF Gcd(Abs(args.n), args.m) = 1
           THEN /\ 0 <= out.val
                /\ out.val < args.m
                /\ (args.n * out.val) % args.m = 1 % args.m
           ELSE out.val = 0

\* a negative n with an inverse whose Bezout coefficient is negative
C4_Witness ==
    /\ Returned("inv_mod")
    /\ args.n = -3
    /\ args.m = 7
    /\ out.val = 2

\* an oversized n that shares a factor with m
C4_WitnessNoInverse ==
    /\ Returned("inv_mod")
    /\ args.n = 22
    /\ args.m = 4
    /\ out.val = 0

(***************************************************************************)
(* sum_power_series_mod(i, n, m), formula.py 224-242.                      *)
(***************************************************************************)
MaxPowN == 20

MaxPowM == 8

MaxPowI == 5

sum_power_series_mod(i, n0, m) ==
    IF i = 0 THEN n0
    ELSE IF i = 1
    THEN LET n == n0 % (2 * m)
         IN  ((n * (n + 1)) \div 2) % m
    ELSE IF i = 2
    THEN LET n   == n0 % (6 * m)
             m3  == 3 * m
             res == ((n * (n + 1)) \div 2) % m3
         IN  ((res * ((2 * n + 1) % m3)) % m3) \div 3
    ELSE IF i = 3
    THEN LET n   == n0 % (2 * m)
             res == ((n * (n + 1)) \div 2) % m
         IN  (res * res) % m
    ELSE 0

InitPow ==
    /\ fn = "sum_power_series_mod"
    /\ args \in { [i |-> i, n |-> n, m |-> m] :
                    i \in (-1)..MaxPowI, n \in 0..MaxPowN, m \in 1..MaxPowM }
    /\ pc = "call"
    /\ out = Pending
    /\ loc = NoLocals

CallSumPowerSeriesMod ==
    /\ fn = "sum_power_series_mod"
    /\ pc = "call"
    /\ out' = Return(sum_power_series_mod(args.i, args.n, args.m))
    /\ pc' = "done"
    /\ UNCHANGED <<fn, args, loc>>

SpecPow == InitPow /\ [][CallSumPowerSeriesMod]_vars

RECURSIVE Power(_, _)
Power(k, i) == IF i = 0 THEN 1 ELSE k * Power(k, i - 1)

RECURSIVE NaivePowerSum(_, _)
NaivePowerSum(i, n) == IF n = 0 THEN 0 ELSE Power(n, i) + NaivePowerSum(i, n - 1)

\* C5: for i in {0, 1, 2, 3}, n >= 0 and m >= 1, sum_power_series_mod(i, n, m)
\* is (sum of k^i for k = 1..n) mod m, a value in [0, m); for any other i it is 0.
C5_PowerSumMod ==
    Returned("sum_power_series_mod") =>
        IF args.i \in 0..3
        THEN /\ out.val = NaivePowerSum(args.i, args.n) % args.m
             /\ out.val \in 0..(args.m - 1)
        ELSE out.val = 0

\* the part of C5 the code meets: the exponents 1, 2, 3 and the others
C5_PowerSumModFrom1 ==
    (Returned("sum_power_series_mod") /\ args.i # 0) =>
        IF args.i \in 1..3
        THEN /\ out.val = NaivePowerSum(args.i, args.n) % args.m
             /\ out.val \in 0..(args.m - 1)
        ELSE out.val = 0

(***************************************************************************)
(* fac_mod(n, m), formula.py 194-206.                                      *)
(***************************************************************************)
MaxFacN == 9

MaxFacM == 12

\* the loop `for i in range(2, n+1)`
RECURSIVE FacModLoop(_, _, _, _)
FacModLoop(i, n, m, output) ==
    IF i > n THEN output ELSE FacModLoop(i + 1, n, m, (output * i) % m)

fac_mod(n, m) ==
    IF n < 0 THEN Raise("ValueError", "n in n! must be positive!")
    ELSE IF n = 0 \/ n = 1 THEN Return(1)
    ELSE Return(FacModLoop(2, n, m, 1))

InitFacMod ==
    /\ fn = "fac_mod"
    /\ args \in { [n |-> n, m |-> m] : n \in (-2)..MaxFacN, m \in 1..MaxFacM }
    /\ pc = "call"
    /\ out = Pending
    /\ loc = NoLocals

CallFacMod ==
    /\ fn = "fac_mod"
    /\ pc = "call"
    /\ out' = fac_mod(args.n, args.m)
    /\ pc' = "done"
    /\ UNCHANGED <<fn, args, loc>>

SpecFacMod == InitFacMod /\ [][CallFacMod]_vars

RECURSIVE Factorial(_)
Factorial(n) == IF n = 0 THEN 1 ELSE n * Factorial(n - 1)

\* C9: for n >= 0 and m >= 1, fac_mod(n, m) is n! mod m, a value in [0, m),
\* n = 0 and n = 1 included; for n < 0 it fails with a domain error.
C9_FacMod ==
    (fn = "fac_mod" /\ pc = "done") =>
        IF args.n >= 0
        THEN /\ out.kind = "return"
             /\ out.val = Factorial(args.n) % args.m
             /\ out.val \in 0..(args.m - 1)
        ELSE /\ out.kind = "raise"
             /\ out.exc = "ValueError"

\* the part of C9 the code meets: every modulus m >= 2, or n >= 2
C9_FacModFrom2 ==
    (fn = "fac_mod" /\ pc = "done" /\ (args.m >= 2 \/ args.n >= 2 \/ args.n < 0)) =>
        IF args.n >= 0
        THEN /\ out.kind = "return"
             /\ out.val = Factorial(args.n) % args.m
             /\ out.val \in 0..(args.m - 1)
        ELSE /\ out.kind = "raise"
             /\ out.exc = "ValueError"

(***************************************************************************)
(* max_subarray(array), formula.py 147-154.                                *)
(***************************************************************************)
MaxLen == 4

MaxVal == 2

\* a scan that never resets the running sum
MaxEndingHere_noreset(max_ending_here, x) == max_ending_here + x

\* `max_ending_here = max(0, max_ending_here + x)`
MaxEndingHere(max_ending_here, x) == Max(0, max_ending_here + x)

\* a scan that takes min for max when it records the best sum
MaxSoFar_min(max_so_far, max_ending_here) == Min(max_so_far, max_ending_here)

\* `max_so_far = max(max_so_far, max_ending_here)`
MaxSoFar(max_so_far, max_ending_here) == Max(max_so_far, max_ending_here)

\* the loop `for x in array`, k the index of x
RECURSIVE MaxSubLoop(_, _, _, _)
MaxSubLoop(array, k, max_so_far, max_ending_here) ==
    IF k > Len(array) THEN max_so_far
    ELSE LET meh == MaxEndingHere(max_ending_here, array[k])
         IN  MaxSubLoop(array, k + 1, MaxSoFar(max_so_far, meh), meh)

max_subarray(array) == MaxSubLoop(array, 1, 0, 0)

Arrays == UNION { [1..len -> (-MaxVal)..MaxVal] : len \in 0..MaxLen }

\* the arrays of the documented examples
ExampleArrays == { <<-1, -2, -3>>, <<2, -1, 3, -4, 5>> }

InitMaxSub ==
    /\ fn = "max_subarray"
    /\ \/ args \in { [array |-> a] : a \in Arrays }
       \/ args \in { [array |-> a] : a \in ExampleArrays }
    /\ pc = "call"
    /\ out = Pending
    /\ loc = NoLocals

CallMaxSubarray ==
    /\ fn = "max_subarray"
    /\ pc = "call"
    /\ out' = Return(max_subarray(args.array))
    /\ pc' = "done"
    /\ UNCHANGED <<fn, args, loc>>

SpecMaxSub == InitMaxSub /\ [][CallMaxSubarray]_vars

\* the sum of array[i..j]
RECURSIVE SumRange(_, _, _)
SumRange(array, i, j) == IF i > j THEN 0 ELSE array[j] + SumRange(array, i, j - 1)

\* the sums of all contiguous subranges, the empty one included
RangeSums(array) ==
    {0} \cup { SumRange(array, i, j) : i \in 1..Len(array), j \in 1..Len(array) }

NaiveMaxSubarray(array) ==
    CHOOSE best \in RangeSums(array) : \A s \in RangeSums(array) : s <= best

\* C7: max_subarray(array) is the maximum of the sums of all contiguous
\* subranges, the empty one (sum 0) included; so it is never negative, and
\* it is 0 when every element is negative or the array is empty.
C7_MaxSubarrayIsMax ==
    Returned("max_subarray") =>
        /\ out.val = NaiveMaxSubarray(args.array)
        /\ out.val >= 0
        /\ (\A k \in 1..Len(args.array) : args.array[k] < 0) => out.val = 0

\* the best range lies strictly inside the array, after a negative prefix sum
C7_Witness ==
    /\ Returned("max_subarray")
    /\ args.array = <<1, -2, 2, 1>>
    /\ out.val = 3

\* C8 as stated: 0 for the empty array, 0 for [-1, -2, -3], 6 for [2, -1, 3, -4, 5]
C8_ExamplesAsStated ==
    Returned("max_subarray") =>
        /\ args.array = <<>> => out.val = 0
        /\ args.array = <<-1, -2, -3>> => out.val = 0
        /\ args.array = <<2, -1, 3, -4, 5>> => out.val = 6

\* C8 (amended): max_subarray returns 0 for the empty array, 0 for
\* [-1, -2, -3], and 5 for [2, -1, 3, -4, 5].
C8_Examples ==
    Returned("max_subarray") =>
        /\ args.array = <<>> => out.val = 0
        /\ args.array = <<-1, -2, -3>> => out.val = 0
        /\ args.array = <<2, -1, 3, -4, 5>> => out.val = 5

C8_Witness ==
    /\ Returned("max_subarray")
    /\ args.array = <<2, -1, 3, -4, 5>>
    /\ out.val = 5
    /\ NaiveMaxSubarray(args.array) = 5

(***************************************************************************)
(* irrational_continous_frac(d, p, q, limit), formula.py 382-409, run one  *)
(* loop iteration per step.  p and q are Fractions.  sd = sqrt(d) is a     *)
(* float in the code; the model computes int((p + sd) / q) exactly, which  *)
(* agrees with the float at the magnitudes of the bounds below.            *)
(***************************************************************************)
MaxD == 46

MaxIcfP == 1

MaxIcfQ == 2

MaxLimit == 13

FrSub(x, y) == Fraction(x[1] * y[2] - y[1] * x[2], x[2] * y[2])

FrMul(x, y) == Fraction(x[1] * y[1], x[2] * y[2])

\* x / y for y # 0
FrDiv(x, y) == Fraction(x[1] * y[2], x[2] * y[1])

FrInt(n) == Fraction(n, 1)

\* `int(sd) * int(sd) == d`
IsSquare(d) == isqrt(d) * isqrt(d) = d

\* `int((p + sd) / q)` for a non-square d: (p + sqrt d) / q truncated toward zero.
\* With p = pn/pd and q = qn/qd the value is (N + M * sqrt d) / D, D > 0.
IntQuotient(d, p, q) ==
    LET D0 == p[2] * q[1]
        sg == IF D0 < 0 THEN -1 ELSE 1
        N  == sg * p[1] * q[2]
        M  == sg * p[2] * q[2]
        D  == sg * D0
        r  == isqrt(M * M * d)
        fl == (IF M > 0 THEN N + r ELSE N - r - 1) \div D
    IN  IF fl >= 0 THEN fl ELSE fl + 1

\* `pairspq.index((p, q))`, counted from 1
Index(pairspq, pair) ==
    CHOOSE j \in 1..Len(pairspq) :
        /\ pairspq[j] = pair
        /\ \A h \in 1..(j - 1) : pairspq[h] # pair

\* a return that cuts the expansion one term early, `repetend[:i]` and `repetend[i:]`
IcfResult_early(repetend, j) ==
    Append(SubSeq(repetend, 1, j - 1), SubSeq(repetend, j, Len(repetend)))

\* `tuple(repetend[:i+1] + [tuple(repetend[i+1:])])`, j = i + 1
IcfResult(repetend, j) ==
    Append(SubSeq(repetend, 1, j), SubSeq(repetend, j + 1, Len(repetend)))

\* a limit failure raised as an exception class of its own
IcfLimitError_own == Raise("RuntimeError", "Repetend is longer than {0:d}, please try higher limit!")

\* `raise ValueError("D is perfect square!")`
IcfSquareError == Raise("ValueError", "D is perfect square!")

\* `raise ValueError("Repetend is longer than {0:d}, ...".format(limit))`
IcfLimitError == Raise("ValueError", "Repetend is longer than {0:d}, please try higher limit!")

InitIcf ==
    /\ fn = "irrational_continous_frac"
    /\ args \in { [d |-> d, p |-> p, q |-> q, limit |-> l] :
                    d \in 1..MaxD, p \in 0..MaxIcfP, q \in 1..MaxIcfQ, l \in 0..MaxLimit }
    /\ pc = "call"
    /\ out = Pending
    /\ loc = NoLocals

\* lines 390-397: the perfect-square test and the first partial quotient
IcfStart ==
    /\ fn = "irrational_continous_frac"
    /\ pc = "call"
    /\ IF IsSquare(args.d)
       THEN /\ out' = IcfSquareError
            /\ pc' = "done"
            /\ loc' = loc
       ELSE LET a == IntQuotient(args.d, FrInt(args.p), FrInt(args.q))
            IN  /\ loc' = [p |-> FrInt(args.p), q |-> FrInt(args.q), a |-> a,
                           repetend |-> <<a>>, pairspq |-> <<>>, k |-> 0]
                /\ pc' = "loop"
                /\ out' = out
    /\ UNCHANGED <<fn, args>>

\* lines 398-408: one iteration of `for _ in range(limit)`
IcfStep ==
    /\ fn = "irrational_continous_frac"
    /\ pc = "loop"
    /\ loc.k < args.limit
    /\ LET p == FrSub(FrMul(FrInt(loc.a), loc.q), loc.p)
           q == FrDiv(FrSub(FrInt(args.d), FrMul(p, p)), loc.q)
           a == IntQuotient(args.d, p, q)
       IN  IF \E j \in 1..Len(loc.pairspq) : loc.pairspq[j] = <<p, q>>
           THEN /\ out' = Return(IcfResult(loc.repetend, Index(loc.pairspq, <<p, q>>)))
                /\ pc' = "done"
                /\ loc' = [loc EXCEPT !.p = p, !.q = q, !.a = a, !.k = @ + 1]
           ELSE /\ loc' = [loc EXCEPT !.p = p, !.q = q, !.a = a, !.k = @ + 1,
                                      !.pairspq = Append(@, <<p, q>>),
                                      !.repetend = Append(@, a)]
                /\ UNCHANGED <<pc, out>>
    /\ UNCHANGED <<fn, args>>

\* line 409: the loop ran `limit` times without returning
IcfExhaust ==
    /\ fn = "irrational_continous_frac"
    /\ pc = "loop"
    /\ loc.k = args.limit
    /\ out' = IcfLimitError
    /\ pc' = "done"
    /\ UNCHANGED <<fn, args, loc>>

NextIcf == IcfStart \/ IcfStep \/ IcfExhaust

SpecIcf == InitIcf /\ [][NextIcf]_vars

\* The expansion of sqrt(d) by the integer form of the recurrence:
\* <<m, c, a>> with m0 = 0, c0 = 1, a = floor((m + sqrt d) / c).
RECURSIVE SqrtStep(_, _)
SqrtStep(d, k) ==
    IF k = 0 THEN <<0, 1, isqrt(d)>>
    ELSE LET prev == SqrtStep(d, k - 1)
             m    == prev[2] * prev[3] - prev[1]
             c    == (d - m * m) \div prev[2]
         IN  <<m, c, (isqrt(d) + m) \div c>>

SqrtQuotient(d, k) == SqrtStep(d, k)[3]

\* the matrix <<A, B, C, D>> of y |-> [t1; t2, ..., tL, y]
RECURSIVE TailMatrix(_, _)
TailMatrix(tail, k) ==
    IF k = 0 THEN <<1, 0, 0, 1>>
    ELSE LET mt == TailMatrix(tail, k - 1)
         IN  <<mt[1] * tail[k] + mt[2], mt[1], mt[3] * tail[k] + mt[4], mt[3]>>

\* a0 + 1/y = sqrt d for the y > 0 fixed by y = [tail; y]: y = (a0 + sqrt d) / c
\* with c = d - a0^2 solves C y^2 + (D - A) y - B = 0, rational and irrational
\* parts apart.
PeriodicValueIsSqrt(d, a0, tail) ==
    LET mt == TailMatrix(tail, Len(tail))
        c  == d - a0 * a0
    IN  /\ \A j \in 1..Len(tail) : tail[j] >= 1
        /\ 2 * a0 * mt[3] + (mt[4] - mt[1]) * c = 0
        /\ mt[3] * (d + a0 * a0) + (mt[4] - mt[1]) * a0 * c - mt[2] * c * c = 0

IcfOfSqrt == fn = "irrational_continous_frac" /\ args.p = 0 /\ args.q = 1

Distinct(seq) == \A i, j \in 1..Len(seq) : i # j => seq[i] # seq[j]

\* C6: for a non-square d, when irrational_continous_frac(d, 0, 1) returns, it
\* returns (a0, (a1, ..., aL)), the successive partial quotients of sqrt(d); the
\* pair reached after aL is the pair that produced a1; the tail repeated forever
\* is the expansion of sqrt(d); and no (p, q) pair is ever recorded twice.
C6_SqrtExpansion ==
    /\ (IcfOfSqrt /\ pc \in {"loop", "done"} /\ ~IsSquare(args.d)) =>
           Distinct(loc.pairspq)
    /\ (IcfOfSqrt /\ pc = "done" /\ out.kind = "return") =>
           LET tail == out.val[Len(out.val)]
               L    == Len(tail)
           IN  /\ Len(out.val) = 2
               /\ L >= 1
               /\ L = Len(loc.pairspq)
               /\ out.val[1] = SqrtQuotient(args.d, 0)
               /\ \A j \in 1..L : tail[j] = SqrtQuotient(args.d, j)
               /\ <<loc.p, loc.q>> = loc.pairspq[1]
               /\ \A j \in 1..L : SqrtQuotient(args.d, L + j) = tail[j]
               /\ PeriodicValueIsSqrt(args.d, out.val[1], tail)

\* sqrt(19) = [4; 2, 1, 3, 1, 2, 8, ...], a period of six
C6_Witness ==
    /\ IcfOfSqrt
    /\ pc = "done"
    /\ out.kind = "return"
    /\ args.d = 19
    /\ out.val[1] = 4
    /\ out.val[2] = <<2, 1, 3, 1, 2, 8>>
    /\ Len(loc.pairspq) = 6

IcfDone == fn = "irrational_continous_frac" /\ pc = "done"

\* the call ran out of iterations
LimitExhausted == IcfDone /\ ~IsSquare(args.d) /\ out.kind = "raise"

\* C10 as stated: the limit failure is of another error kind than the domain
\* error raised for a perfect-square d.
C10_DistinctKinds ==
    LimitExhausted => out.exc # IcfSquareError.exc

\* C10 (amended): exhaustion of the limit is raised as the same error kind as
\* the perfect-square domain error, ValueError; the two differ in message only.
C10_SameKind ==
    /\ LimitExhausted =>
           /\ out.exc = "ValueError"
           /\ out.exc = IcfSquareError.exc
           /\ out.msg # IcfSquareError.msg
    /\ (IcfDone /\ IsSquare(args.d)) => out = IcfSquareError

\* sqrt(7) has a period of four and the loop is allowed three iterations
C10_Witness ==
    /\ LimitExhausted
    /\ args.d = 7
    /\ args.p = 0
    /\ args.q = 1
    /\ args.limit = 3
    /\ Len(loc.pairspq) = 3

(***************************************************************************)
(* The repetend of (p + sqrt d) / q, found by running the recurrence of    *)
(* lines 399-401 until a pair comes back, however many steps that takes.   *)
(***************************************************************************)
\* one pass of lines 399-401: from <<p, q, a>> to the next <<p, q, a>>
IcfAdvance(d, st) ==
    LET p == FrSub(FrMul(FrInt(st[3]), st[2]), st[1])
        q == FrDiv(FrSub(FrInt(d), FrMul(p, p)), st[2])
    IN  <<p, q, IntQuotient(d, p, q)>>

\* <<steps, first>>: the step at which a pair repeats and the step it repeats
RECURSIVE FirstRepeat(_, _, _)
FirstRepeat(d, st, pairs) ==
    LET nx   == IcfAdvance(d, st)
        pair == <<nx[1], nx[2]>>
    IN  IF \E j \in 1..Len(pairs) : pairs[j] = pair
        THEN <<Len(pairs) + 1, Index(pairs, pair)>>
        ELSE FirstRepeat(d, nx, Append(pairs, pair))

IcfFirstRepeat(d, p, q) ==
    FirstRepeat(d, <<FrInt(p), FrInt(q), IntQuotient(d, FrInt(p), FrInt(q))>>, <<>>)

\* the number of terms of the repeating tail
RepetendLength(d, p, q) ==
    LET fr == IcfFirstRepeat(d, p, q) IN fr[1] - fr[2]

\* the number of loop iterations after which the call returns
IterationsNeeded(d, p, q) == IcfFirstRepeat(d, p, q)[1]

\* C11: for a non-square d the limit failure is raised only when the repetend
\* has more than limit terms; a call whose repetend has at most limit terms
\* (such as d = 2, p = 0, q = 1, limit = 1) returns the expansion.
C11_FailsOnlyIfRepetendLonger ==
    (IcfDone /\ ~IsSquare(args.d)) =>
        /\ out.kind = "raise" => RepetendLength(args.d, args.p, args.q) > args.limit
        /\ RepetendLength(args.d, args.p, args.q) <= args.limit => out.kind = "return"

\* what the code does instead (C11): it fails exactly when limit is less than
\* the lead-in plus the repetend plus the one iteration that meets the repeat
C11_FailsIffTooFewIterations ==
    (IcfDone /\ ~IsSquare(args.d)) =>
        (out.kind = "raise" <=> args.limit < IterationsNeeded(args.d, args.p, args.q))

\* the example of C11: sqrt 2 = [1; (2)], one repeating term, limit = 1
C11_ExampleFails ==
    /\ LimitExhausted
    /\ args.d = 2
    /\ args.p = 0
    /\ args.q = 1
    /\ args.limit = 1
    /\ RepetendLength(2, 0, 1) = 1


(***************************************************************************)
(* The library as a whole: a call of any one of its functions.             *)
(***************************************************************************)
Init ==
    \/ InitSumFloor
    \/ InitCFrac
    \/ InitIter
    \/ InitInvMod
    \/ InitPow
    \/ InitFacMod
    \/ InitMaxSub
    \/ InitIcf

Next ==
    \/ CallSumFloor
    \/ CallRational
    \/ CallConvergent
    \/ CallIterAssociate
    \/ CallInvMod
    \/ CallSumPowerSeriesMod
    \/ CallFacMod
    \/ CallMaxSubarray
    \/ IcfStart
    \/ IcfStep
    \/ IcfExhaust

Spec == Init /\ [][Next]_vars

=============================================================================
